---- MODULE Spec2Model ----
(***************************************************************************)
(* A model of the study-plan engine of scholar-mate:                       *)
(*   - PlannerAgent (src/agents/planner_agent.py): generate_study_plan and *)
(*     the steps it runs (parse, allocate, insert breaks, calendar sync,   *)
(*     save, summary);                                                     *)
(*   - SchedulerUtils (src/utils/scheduler_utils.py): the schedule         *)
(*     transformations (spaced repetition, break insertion, ...).          *)
(*                                                                         *)
(* Representation of Python values:                                        *)
(*   - a dict that is iterated (a schedule) is a sequence of records       *)
(*     [key, value] in insertion order; assigning to an existing key       *)
(*     replaces its value in place (DictSet);                              *)
(*   - a time string 'HH:MM' is the pair <<HH, MM>> of its two fields;     *)
(*     strptime accepts it iff HH < 24 and MM < 60 (ParseTime);            *)
(*   - a date is a day number; day 0 is a Monday;                          *)
(*   - a value that may be None is a record [has, val];                    *)
(*   - an f-string such as f'Study {topic}' is the tuple of its parts.     *)
(***************************************************************************)
EXTENDS Integers, Sequences, FiniteSets, TLC

VARIABLES
    now,         \* the wall clock (datetime.now()), in days
    pc,          \* position of generate_study_plan
    request,     \* the arguments of the running call: user_input and context
    study_info,  \* result of _parse_study_request
    plan,        \* result of _create_study_schedule
    optimized,   \* result of _optimize_schedule
    calendar,    \* events the calendar collaborator received in the running call
    db,          \* rows of the study_plans table
    result,      \* the dictionary generate_study_plan returned
    stages,      \* history: the pipeline steps the running call has executed
    builds,      \* history: number of calls started
    prev,        \* history: study_info and result of the call before this one
    saved,       \* history: the plan the running call handed to save_study_plan
    par,         \* concurrent callers: the local state of each invocation
    usched,      \* SchedulerUtils: the schedule a caller of the utilities holds
    ubefore,     \* history: the schedule passed to the last utility call
    ucall,       \* history: the last utility call and its arguments
    usteps,      \* history: number of transformations applied to usched
    uinput,      \* the schedule object passed to the last utility call, read after it
    uresult,     \* the value the last non-schedule utility call returned
    dist         \* optimize_topic_distribution: the locals of the running call

pvars == <<now, pc, request, study_info, plan, optimized, calendar, db, result,
           stages, builds, prev, saved>>
uvars == <<usched, ubefore, ucall, usteps, uinput, uresult>>
cvars == <<par>>
dvars == <<dist>>
vars == <<pvars, uvars, cvars, dvars>>

-----------------------------------------------------------------------------
(* Bounds of the model *)

MaxClock == 1        \* the clock runs over days 0..MaxClock
MaxTextHours == 5    \* "N hours per day" in the text: N in 0..MaxTextHours
MaxBuilds == 2       \* calls of generate_study_plan in one behaviour
MaxSubjects == 2     \* distinct subjects found in one text
MaxLabel == 12       \* "Day N" labels: N in 1..MaxLabel
MaxUtilHours == 4    \* daily_hours given to the utilities: up to MaxUtilHours
MaxUtilSteps == 2    \* transformations applied in a row to one schedule
MaxDayLen == 3       \* sessions in a day a caller composes itself

\* Subjects the text may mention (members of common_subjects, title-cased).
TopicNames == {"Calculus", "Physics", "History"}

\* "in N days" / "next week" / "in N weeks" phrases of the text.
DeadlinePhrases == {0, 2, 9, 21}

-----------------------------------------------------------------------------
(* Program constants *)

DefaultDailyHours == 3   \* study_info['daily_hours'] default
DefaultDays == 7         \* days_available without a deadline
MaxPlanDays == 14        \* upper clamp of days_available
BreakAfterMinutes == 120 \* _optimize_schedule: break time = session time + 120
DefaultDifficulty == 5   \* topic_difficulty.get(topic, 0.5), in tenths
HardAbove == 7           \* difficulty > 0.7, in tenths

-----------------------------------------------------------------------------
(* Generic helpers *)

Max(a, b) == IF a >= b THEN a ELSE b
Min(a, b) == IF a <= b THEN a ELSE b

None == [has |-> FALSE, val |-> 0]
Some(v) == [has |-> TRUE, val |-> v]

\* All orders in which a set can be listed.
Orderings(S) ==
    {s \in [1..Cardinality(S) -> S] : \A i, j \in 1..Cardinality(S) : s[i] = s[j] => i = j}

Range(s) == {s[i] : i \in 1..Len(s)}

\* Python dict as an insertion-ordered sequence of [key, value].
DictKeys(d) == [i \in 1..Len(d) |-> d[i].key]
DictHas(d, k) == \E i \in 1..Len(d) : d[i].key = k
DictGet(d, k) == d[CHOOSE i \in 1..Len(d) : d[i].key = k].value
DictSet(d, k, v) ==
    IF DictHas(d, k)
    THEN [i \in 1..Len(d) |-> IF d[i].key = k THEN [key |-> k, value |-> v] ELSE d[i]]
    ELSE Append(d, [key |-> k, value |-> v])

\* strftime('%A') of a date.
DayName(date) ==
    CASE date % 7 = 0 -> "Monday"
      [] date % 7 = 1 -> "Tuesday"
      [] date % 7 = 2 -> "Wednesday"
      [] date % 7 = 3 -> "Thursday"
      [] date % 7 = 4 -> "Friday"
      [] date % 7 = 5 -> "Saturday"
      [] OTHER        -> "Sunday"

\* datetime.strptime(time_str, '%H:%M') succeeds.
ParseTime(t) == t[1] \in 0..23 /\ t[2] \in 0..59

\* PlannerAgent._add_minutes_to_time / SchedulerUtils._add_minutes_to_time
AddMinutesToTime(t, minutes) ==
    IF ParseTime(t)
    THEN LET total == (t[1] * 60 + t[2] + minutes) % 1440
         IN  <<total \div 60, total % 60>>
    ELSE t

-----------------------------------------------------------------------------
(* PlannerAgent._extract_topics, _extract_deadline, _parse_study_request *)

\* The requests a caller can make.  user_input: is_str (the argument is a
\* string), subjects (topics the patterns find in it), listing (the order in
\* which list(set(topics)) lists them in the caller's process), hours (the
\* "N hours per day" match), deadline (days from today named by the text).
\* context: the optional 'topics' list and 'daily_hours' value; a daily_hours
\* that is not a number has is_int = FALSE.
IntHours(h) == [is_int |-> TRUE, val |-> h]
NotANumber == [is_int |-> FALSE, val |-> 0]

HoursInputs ==
    {[text |-> None, ctx |-> None]}
    \cup {[text |-> Some(n), ctx |-> None] : n \in 0..MaxTextHours}
    \cup {[text |-> None, ctx |-> Some(v)] : v \in {IntHours(-1), IntHours(4), NotANumber}}
    \cup {[text |-> Some(2), ctx |-> Some(IntHours(0))]}

\* _extract_topics: list(set(topics)) lists the found topics in an order that
\* depends on the process's string hashing (the same set is listed in the same
\* order throughout one process); nothing found gives the placeholder.
ExtractTopics(subjects) ==
    IF subjects = {} THEN {<<"General Study">>} ELSE Orderings(subjects)

StringRequests ==
    UNION { { [is_str |-> TRUE, subjects |-> S, listing |-> L, hours |-> h.text,
               deadline |-> d, ctx_topics |-> ct, ctx_hours |-> h.ctx] :
                L \in ExtractTopics(S),
                h \in HoursInputs,
                d \in {None} \cup {Some(k) : k \in DeadlinePhrases},
                ct \in {None, Some(<<"Physics">>)} } :
            S \in {T \in SUBSET TopicNames : Cardinality(T) <= MaxSubjects} }

\* A user_input that is no string (text.lower() raises).
BadRequest ==
    [is_str |-> FALSE, subjects |-> {}, listing |-> <<>>, hours |-> None, deadline |-> None,
     ctx_topics |-> None, ctx_hours |-> None]

Requests == StringRequests \cup {BadRequest}

\* _parse_study_request, for one listing `topics` of the extracted topics and
\* the clock value `today`.
ParseStudyRequest(req, topics, today) ==
    [ topics      |-> IF req.ctx_topics.has THEN topics \o req.ctx_topics.val ELSE topics,
      deadlines   |-> IF req.deadline.has
                      THEN [t \in Range(topics) |-> today + req.deadline.val]
                      ELSE <<>>,
      daily_hours |-> IF req.ctx_hours.has THEN req.ctx_hours.val
                      ELSE IF req.hours.has THEN [is_int |-> TRUE, val |-> req.hours.val]
                      ELSE [is_int |-> TRUE, val |-> DefaultDailyHours],
      start_date  |-> today,
      deadline    |-> IF req.deadline.has THEN Some(today + req.deadline.val) ELSE None,
      sync_calendar |-> TRUE ]

-----------------------------------------------------------------------------
(* PlannerAgent._create_study_schedule *)

StudySession(time, topic) ==
    [time |-> time, activity |-> <<"Study", topic>>, duration |-> "2 hours",
     topic |-> topic, session_type |-> "focused_study"]

EveningReview ==
    [time |-> <<19, 0>>, activity |-> <<"Review and practice problems">>,
     duration |-> "1 hour", topic |-> "Mixed Review", session_type |-> "review"]

DaysAvailable(si) ==
    LET raw == IF si.deadline.has THEN si.deadline.val - si.start_date ELSE DefaultDays
    IN  Max(1, Min(raw, MaxPlanDays))

\* The comparisons remaining_hours >= 2 raise TypeError for a daily_hours that
\* is no number; total_hours / len(topics) raises for an empty topic list.
CreateRaises(si) == ~si.daily_hours.is_int \/ Len(si.topics) = 0

\* The sessions of one day, for the topic index at the start of the day.
DailySessions(si, topic_index) ==
    LET topics == si.topics
        n == Len(topics)
        hours == si.daily_hours.val
        morning == hours >= 2
        after_morning == IF morning THEN hours - 2 ELSE hours
        afternoon == after_morning >= 2
        after_afternoon == IF afternoon THEN after_morning - 2 ELSE after_morning
        evening == after_afternoon >= 1
    IN  (IF morning THEN <<StudySession(<<9, 0>>, topics[(topic_index % n) + 1])>> ELSE <<>>)
        \o (IF afternoon
            THEN <<StudySession(<<14, 0>>, topics[((topic_index + 1) % n) + 1])>>
            ELSE <<>>)
        \o (IF evening THEN <<EveningReview>> ELSE <<>>)

\* Variant: topic_index += 1 after the morning session.
TopicIndexAdvancesDaily(si) == si.daily_hours.val >= 2

\* topic_index += 1 happens inside the afternoon branch only.
AfternoonScheduled(si) == si.daily_hours.val >= 4

RECURSIVE CreateDays(_, _, _, _)
CreateDays(si, day, topic_index, schedule) ==
    IF day >= DaysAvailable(si) THEN schedule
    ELSE CreateDays(si, day + 1,
                    IF AfternoonScheduled(si) THEN topic_index + 1 ELSE topic_index,
                    DictSet(schedule, DayName(si.start_date + day),
                            DailySessions(si, topic_index)))

\* Variant: the day labels are taken from the clock at the time of the call
\* instead of study_info['start_date'].
CreateStudyScheduleFromClock(si) == CreateDays([si EXCEPT !.start_date = now], 0, 0, <<>>)

CreateStudySchedule(si) == CreateDays(si, 0, 0, <<>>)

-----------------------------------------------------------------------------
(* PlannerAgent._optimize_schedule *)

BreakSession(time) ==
    [time |-> time, activity |-> <<"Break">>, duration |-> "15 minutes",
     topic |-> "Rest", session_type |-> "break"]

\* A break follows the session at position i of its day.
PlannerBreakAfter(sessions, i) == sessions[i].session_type = "focused_study"

RECURSIVE OptimizeSessions(_, _)
OptimizeSessions(sessions, i) ==
    IF i > Len(sessions) THEN <<>>
    ELSE <<sessions[i]>>
         \o (IF PlannerBreakAfter(sessions, i)
             THEN <<BreakSession(AddMinutesToTime(sessions[i].time, BreakAfterMinutes))>>
             ELSE <<>>)
         \o OptimizeSessions(sessions, i + 1)

OptimizeSchedule(p) ==
    [d \in 1..Len(p) |-> [key |-> p[d].key, value |-> OptimizeSessions(p[d].value, 1)]]

-----------------------------------------------------------------------------
(* PlannerAgent._generate_plan_summary *)

\* Positions <<day, index>> of the sessions of a plan.
AllSessions(p) == UNION {{<<d, i>> : i \in 1..Len(p[d].value)} : d \in 1..Len(p)}

SessionAt(p, di) == p[di[1]].value[di[2]]

StudyTypes == {"focused_study", "review"}

GeneratePlanSummary(p) ==
    LET study == {di \in AllSessions(p) : SessionAt(p, di).session_type \in StudyTypes}
    IN  [ total_days     |-> Len(p),
          total_sessions |-> Cardinality(AllSessions(p)),
          study_sessions |-> Cardinality(study),
          topics_covered |-> {SessionAt(p, di).topic : di \in AllSessions(p)} \ {"Rest"},
          estimated_hours |-> Cardinality(study) * 2 ]

-----------------------------------------------------------------------------
(* Day labels and their order under sorted() *)

\* f"Day {current_day + 1}"
DayKey(n) == "Day " \o ToString(n)

\* The code points of a digit string, most significant digit first.
RECURSIVE DigitCodes(_)
DigitCodes(n) == IF n < 10 THEN <<48 + n>> ELSE DigitCodes(n \div 10) \o <<48 + (n % 10)>>

\* The code points of a day label: a weekday name or "Day N".
LabelCodes(label) ==
    CASE label = "Monday"    -> <<77, 111, 110, 100, 97, 121>>
      [] label = "Tuesday"   -> <<84, 117, 101, 115, 100, 97, 121>>
      [] label = "Wednesday" -> <<87, 101, 100, 110, 101, 115, 100, 97, 121>>
      [] label = "Thursday"  -> <<84, 104, 117, 114, 115, 100, 97, 121>>
      [] label = "Friday"    -> <<70, 114, 105, 100, 97, 121>>
      [] label = "Saturday"  -> <<83, 97, 116, 117, 114, 100, 97, 121>>
      [] label = "Sunday"    -> <<83, 117, 110, 100, 97, 121>>
      [] OTHER -> <<68, 97, 121, 32>>
                  \o DigitCodes(CHOOSE n \in 1..MaxLabel : label = DayKey(n))

\* Python's str < str: the first differing code point decides, a proper prefix
\* is smaller.
RECURSIVE CodesLess(_, _)
CodesLess(a, b) ==
    IF b = <<>> THEN FALSE
    ELSE IF a = <<>> THEN TRUE
    ELSE IF Head(a) # Head(b) THEN Head(a) < Head(b)
    ELSE CodesLess(Tail(a), Tail(b))

StrLess(a, b) == CodesLess(LabelCodes(a), LabelCodes(b))

\* sorted(keys) for distinct keys.
RECURSIVE SortedSet(_)
SortedSet(S) ==
    IF S = {} THEN <<>>
    ELSE LET least == CHOOSE k \in S : \A other \in S \ {k} : StrLess(k, other)
         IN  <<least>> \o SortedSet(S \ {least})

\* days = sorted(schedule.keys())
SortedDays(schedule) == SortedSet(Range(DictKeys(schedule)))

\* days.index(day)
RECURSIVE IndexOf(_, _, _)
IndexOf(seq, x, i) == IF seq[i] = x THEN i ELSE IndexOf(seq, x, i + 1)

-----------------------------------------------------------------------------
(* Sessions of the two shapes the utilities accept *)

\* A (topic, hours) tuple of optimize_topic_distribution is the record of its
\* positions [t0, t1]; a session dictionary is the record of its keys.
TupleSession(topic, hours) == [t0 |-> topic, t1 |-> hours]
IsTuple(session) == "t0" \in DOMAIN session
IsDict(session) == "session_type" \in DOMAIN session

\* session.get('topic') for a dictionary, session[0] for a tuple.
SessionTopic(session) == IF IsTuple(session) THEN session.t0 ELSE session.topic

-----------------------------------------------------------------------------
(* SchedulerUtils.optimize_topic_distribution *)

\* The while loop for one topic: topic_hours still to place, from the day
\* current_day with hours_remaining_today hours left.  `stop` is the break
\* taken when current_day reaches available_days.
RECURSIVE DistributeTopic(_, _, _, _, _, _, _)
DistributeTopic(topic, topic_hours, current_day, hours_remaining_today, schedule, available_days, daily_hours) ==
    IF topic_hours <= 0
    THEN [current_day |-> current_day, hours_remaining_today |-> hours_remaining_today,
          schedule |-> schedule]
    ELSE LET day_key == DayKey(current_day + 1)
             with_day == IF DictHas(schedule, day_key) THEN schedule
                         ELSE DictSet(schedule, day_key, <<>>)
             hours_to_allocate == Min(topic_hours, hours_remaining_today)
             allocated ==
                 IF hours_to_allocate > 0
                 THEN DictSet(with_day, day_key,
                              Append(DictGet(with_day, day_key),
                                     TupleSession(topic, hours_to_allocate)))
                 ELSE with_day
             hours_left == IF hours_to_allocate > 0 THEN topic_hours - hours_to_allocate
                           ELSE topic_hours
             remaining == IF hours_to_allocate > 0
                          THEN hours_remaining_today - hours_to_allocate
                          ELSE hours_remaining_today
         IN  IF remaining <= 0
             THEN IF current_day + 1 >= available_days
                  THEN [current_day |-> current_day + 1,
                        hours_remaining_today |-> daily_hours, schedule |-> allocated]
                  ELSE DistributeTopic(topic, hours_left, current_day + 1, daily_hours,
                                       allocated, available_days, daily_hours)
             ELSE DistributeTopic(topic, hours_left, current_day, remaining, allocated,
                                  available_days, daily_hours)

\* The for loop over the topics, from topics[i].
RECURSIVE DistributeFrom(_, _, _, _, _, _, _, _)
DistributeFrom(topics, i, hours_per_topic, current_day, hours_remaining_today, schedule, available_days, daily_hours) ==
    IF i > Len(topics) THEN schedule
    ELSE LET r == DistributeTopic(topics[i], hours_per_topic, current_day,
                                  hours_remaining_today, schedule, available_days,
                                  daily_hours)
         IN  IF r.current_day >= available_days THEN r.schedule
             ELSE DistributeFrom(topics, i + 1, hours_per_topic, r.current_day,
                                 r.hours_remaining_today, r.schedule, available_days,
                                 daily_hours)

\* Python's floor division by a positive number.
FloorDiv(a, b) == IF a >= 0 THEN a \div b ELSE -(((-a) + b - 1) \div b)

\* optimize_topic_distribution(topics, available_days, daily_hours), for a
\* non-empty topic list (len(topics) = 0 raises ZeroDivisionError).
OptimizeTopicDistribution(topics, available_days, daily_hours) ==
    DistributeFrom(topics, 1,
                   Max(1, FloorDiv(available_days * daily_hours, Len(topics))),
                   0, daily_hours, <<>>, available_days, daily_hours)

-----------------------------------------------------------------------------
(* SchedulerUtils.apply_spaced_repetition *)

ReviewIntervals == <<1, 3, 7>>

ReviewSession(topic) ==
    [time |-> <<20, 0>>, activity |-> <<"Review", topic>>, duration |-> "30 minutes",
     topic |-> topic, session_type |-> "review"]

\* The order in which the first loop visits the days.
VisitOrder(schedule) == SortedDays(schedule)

\* topic_first_appearance after scanning the sessions of days[d..], sessions
\* from position i: a dict as the sequence of [key |-> topic, value |-> day].
RECURSIVE FirstAppearance(_, _, _, _, _)
FirstAppearance(schedule, days, d, i, seen) ==
    IF d > Len(days) THEN seen
    ELSE LET sessions == DictGet(schedule, days[d])
         IN  IF i > Len(sessions) THEN FirstAppearance(schedule, days, d + 1, 1, seen)
             ELSE LET topic == SessionTopic(sessions[i])
                  IN  FirstAppearance(schedule, days, d, i + 1,
                                      IF DictHas(seen, topic) THEN seen
                                      ELSE DictSet(seen, topic, days[d]))

\* The second loop: for the entry t of topic_first_appearance and the interval
\* k of review_intervals, append the review to the target day when it exists.
RECURSIVE AddReviews(_, _, _, _, _)
AddReviews(enhanced, days, first, t, k) ==
    IF t > Len(first) THEN enhanced
    ELSE IF k > Len(ReviewIntervals) THEN AddReviews(enhanced, days, first, t + 1, 1)
    ELSE LET review_day_idx == IndexOf(days, first[t].value, 1) - 1 + ReviewIntervals[k]
         IN  IF review_day_idx < Len(days) /\ DictHas(enhanced, days[review_day_idx + 1])
             THEN AddReviews(
                      DictSet(enhanced, days[review_day_idx + 1],
                              Append(DictGet(enhanced, days[review_day_idx + 1]),
                                     ReviewSession(first[t].key))),
                      days, first, t, k + 1)
             ELSE AddReviews(enhanced, days, first, t, k + 1)

\* apply_spaced_repetition(schedule, topics): the returned schedule.  The
\* topics argument is not read.
ApplySpacedRepetition(schedule, topics) ==
    LET days == VisitOrder(schedule)
    IN  AddReviews(schedule, days, FirstAppearance(schedule, days, 1, 1, <<>>), 1, 1)

\* The caller's schedule object after apply_spaced_repetition(schedule, topics)
\* returned.  enhanced_schedule = schedule.copy() copies the dictionary but not
\* its values: enhanced_schedule[day] and schedule[day] are one list object,
\* and enhanced_schedule[review_day].append(...) appends to that list.  The
\* caller's dictionary keeps its keys and reads the extended lists.
InputAfterSpacedRepetition(schedule, topics) ==
    LET enhanced == ApplySpacedRepetition(schedule, topics)
    IN  [d \in 1..Len(schedule) |->
            [key |-> schedule[d].key, value |-> DictGet(enhanced, schedule[d].key)]]

-----------------------------------------------------------------------------
(* SchedulerUtils.balance_cognitive_load *)

\* topic_difficulty.get(topic, 0.5), in tenths.
DifficultyOf(topic, topic_difficulty) ==
    IF topic \in DOMAIN topic_difficulty THEN topic_difficulty[topic] ELSE DefaultDifficulty

\* The first loop over a day's sessions from position i: hard_sessions and
\* easy_sessions.  A session that is no dictionary is skipped.
RECURSIVE SeparateByDifficulty(_, _, _)
SeparateByDifficulty(sessions, i, topic_difficulty) ==
    IF i > Len(sessions) THEN [hard_sessions |-> <<>>, easy_sessions |-> <<>>]
    ELSE LET rest == SeparateByDifficulty(sessions, i + 1, topic_difficulty)
             session == sessions[i]
         IN  IF ~IsDict(session) THEN rest
             ELSE IF DifficultyOf(session.topic, topic_difficulty) > HardAbove
             THEN [rest EXCEPT !.hard_sessions = <<session>> \o @]
             ELSE [rest EXCEPT !.easy_sessions = <<session>> \o @]

\* Variant: the loop takes from easy_sessions first.
RECURSIVE InterleaveEasyFirst(_, _)
InterleaveEasyFirst(hard_sessions, easy_sessions) ==
    IF hard_sessions = <<>> /\ easy_sessions = <<>> THEN <<>>
    ELSE (IF easy_sessions # <<>> THEN <<Head(easy_sessions)>> ELSE <<>>)
         \o (IF hard_sessions # <<>> THEN <<Head(hard_sessions)>> ELSE <<>>)
         \o InterleaveEasyFirst(IF hard_sessions # <<>> THEN Tail(hard_sessions) ELSE <<>>,
                                IF easy_sessions # <<>> THEN Tail(easy_sessions) ELSE <<>>)

\* while hard_sessions or easy_sessions: pop(0) from hard, then from easy.
RECURSIVE Interleave(_, _)
Interleave(hard_sessions, easy_sessions) ==
    IF hard_sessions = <<>> /\ easy_sessions = <<>> THEN <<>>
    ELSE (IF hard_sessions # <<>> THEN <<Head(hard_sessions)>> ELSE <<>>)
         \o (IF easy_sessions # <<>> THEN <<Head(easy_sessions)>> ELSE <<>>)
         \o Interleave(IF hard_sessions # <<>> THEN Tail(hard_sessions) ELSE <<>>,
                       IF easy_sessions # <<>> THEN Tail(easy_sessions) ELSE <<>>)

BalanceCognitiveLoad(schedule, topic_difficulty) ==
    [d \in 1..Len(schedule) |->
        LET parts == SeparateByDifficulty(schedule[d].value, 1, topic_difficulty)
        IN  [key |-> schedule[d].key,
             value |-> Interleave(parts.hard_sessions, parts.easy_sessions)]]

-----------------------------------------------------------------------------
(* SchedulerUtils.prioritize_by_deadline *)

\* A value of the deadlines dictionary: a naive datetime (as its day number),
\* a timezone-aware datetime, or a date written as text.
NaiveDeadline(day) == [kind |-> "naive", day |-> day]
AwareDeadline(day) == [kind |-> "aware", day |-> day]
TextDeadline(day) == [kind |-> "text", day |-> day]

\* float('inf') and an int days_until as one kind of value.
Infinity == [inf |-> TRUE, days |-> 0]
Finite(days) == [inf |-> FALSE, days |-> days]
ScoreLess(a, b) == ~a.inf /\ (b.inf \/ a.days < b.days)

\* deadline - now raises TypeError unless deadline is a naive datetime, as
\* datetime.now() is.
ScoreRaises(topic, deadlines) ==
    topic \in DOMAIN deadlines /\ deadlines[topic].kind # "naive"

\* urgency_score(topic)
UrgencyScore(topic, deadlines, today) ==
    IF topic \notin DOMAIN deadlines THEN Infinity
    ELSE Finite(deadlines[topic].day - today)

\* One insertion of a stable sort: x goes behind every element whose score is
\* not greater than its own.
RECURSIVE InsertByScore(_, _, _, _)
InsertByScore(sorted, x, deadlines, today) ==
    IF sorted = <<>> THEN <<x>>
    ELSE IF ScoreLess(UrgencyScore(x, deadlines, today),
                      UrgencyScore(Head(sorted), deadlines, today))
    THEN <<x>> \o sorted
    ELSE <<Head(sorted)>> \o InsertByScore(Tail(sorted), x, deadlines, today)

\* sorted(topics, key=urgency_score), of the first n topics.
RECURSIVE SortedByScore(_, _, _, _)
SortedByScore(topics, n, deadlines, today) ==
    IF n = 0 THEN <<>>
    ELSE InsertByScore(SortedByScore(topics, n - 1, deadlines, today), topics[n],
                       deadlines, today)

\* prioritize_by_deadline(topics, deadlines) at the clock value `today`.
PrioritizeByDeadline(topics, deadlines, today) ==
    IF \E i \in 1..Len(topics) : ScoreRaises(topics[i], deadlines)
    THEN [raised |-> TRUE, value |-> <<>>]
    ELSE [raised |-> FALSE, value |-> SortedByScore(topics, Len(topics), deadlines, today)]

-----------------------------------------------------------------------------
(* SchedulerUtils.add_breaks *)

\* Variant: without the test `i < len(sessions) - 1`.
UtilsBreakAfterAny(sessions, i) ==
    IsDict(sessions[i]) /\ sessions[i].session_type \in StudyTypes

\* A break follows the session at position i (1-based) of its day.
UtilsBreakAfter(sessions, i) ==
    /\ IsDict(sessions[i])
    /\ sessions[i].session_type \in StudyTypes
    /\ i < Len(sessions)

RECURSIVE AddBreaksDay(_, _, _)
AddBreaksDay(sessions, i, break_interval) ==
    IF i > Len(sessions) THEN <<>>
    ELSE <<sessions[i]>>
         \o (IF UtilsBreakAfter(sessions, i)
             THEN <<BreakSession(AddMinutesToTime(sessions[i].time, break_interval))>>
             ELSE <<>>)
         \o AddBreaksDay(sessions, i + 1, break_interval)

AddBreaks(schedule, break_interval) ==
    [d \in 1..Len(schedule) |->
        [key |-> schedule[d].key, value |-> AddBreaksDay(schedule[d].value, 1, break_interval)]]

-----------------------------------------------------------------------------
(* PlannerAgent._sync_to_calendar and _save_plan *)

\* The calendar requests of one day's sessions, in order.
RECURSIVE DayPushes(_, _, _)
DayPushes(day, sessions, i) ==
    IF i > Len(sessions) THEN <<>>
    ELSE (IF sessions[i].session_type \in StudyTypes
          THEN <<[event |-> <<"Schedule", sessions[i].activity, day>>,
                  at |-> sessions[i].time, duration |-> sessions[i].duration]>>
          ELSE <<>>)
         \o DayPushes(day, sessions, i + 1)

RECURSIVE PlanPushes(_, _)
PlanPushes(p, d) ==
    IF d > Len(p) THEN <<>>
    ELSE DayPushes(p[d].key, p[d].value, 1) \o PlanPushes(p, d + 1)

\* _sync_to_calendar(plan): `ok` is FALSE when importing or constructing the
\* CalendarAgent raises (process_calendar_request catches its own errors).
\* The except clause logs a warning: nothing is raised to the caller.
\* Variant: without the try/except of _sync_to_calendar.
SyncToCalendarUnguarded(cal, p, ok) ==
    [calendar |-> IF ok THEN cal \o PlanPushes(p, 1) ELSE cal, raised |-> ~ok]

SyncToCalendar(cal, p, ok) ==
    [calendar |-> IF ok THEN cal \o PlanPushes(p, 1) ELSE cal, raised |-> FALSE]

\* DatabaseTool.save_study_plan: json.dumps(study_info) raises TypeError for
\* the datetime under 'start_date'; the method then returns -1 and stores
\* nothing.
JsonDumpsRaises(si) == "start_date" \in DOMAIN si

SaveStudyPlan(rows, plan_data) ==
    IF JsonDumpsRaises(plan_data.study_info)
    THEN [rows |-> rows, id |-> -1]
    ELSE [rows |-> Append(rows, [plan_data |-> plan_data.plan, status |-> plan_data.status,
                                 created_at |-> now]),
          id |-> Len(rows) + 1]

\* DatabaseTool.get_current_study_plan: the rows the query may return, an
\* active row with the latest created_at (the order among rows of one
\* created_at is not determined by the query); none gives None.
GetCurrentStudyPlan(rows) ==
    {rows[i] : i \in {j \in 1..Len(rows) :
                        /\ rows[j].status = "active"
                        /\ \A k \in 1..Len(rows) :
                               rows[k].status = "active" =>
                                   rows[k].created_at <= rows[j].created_at}}

\* Variant: without the try/except of _save_plan.
SavePlanUnguarded(rows, p, si, ok) ==
    LET stored == SaveStudyPlan(rows, [plan |-> p, study_info |-> si, status |-> "active"])
    IN  [db |-> IF ok THEN stored.rows ELSE rows,
         handed |-> IF ok THEN [has |-> TRUE, plan |-> p, id |-> stored.id]
                    ELSE [has |-> FALSE, plan |-> <<>>, id |-> 0],
         raised |-> TRUE]

\* _save_plan(plan, study_info): `ok` is FALSE when importing or constructing
\* the DatabaseTool raises.  `handed` is the plan inside the plan_data given to
\* db.save_study_plan, with the id that call returned.  Nothing is raised to
\* the caller.
SavePlan(rows, p, si, ok) ==
    LET stored == SaveStudyPlan(rows, [plan |-> p, study_info |-> si, status |-> "active"])
    IN  [db |-> IF ok THEN stored.rows ELSE rows,
         handed |-> IF ok THEN [has |-> TRUE, plan |-> p, id |-> stored.id]
                    ELSE [has |-> FALSE, plan |-> <<>>, id |-> 0],
         raised |-> FALSE]

-----------------------------------------------------------------------------
(* PlannerAgent.generate_study_plan *)

NoTopicsResult ==
    [success |-> FALSE, message |-> <<"Could not identify study topics">>]

\* Variant: without the except clause the exception leaves the method.
OuterExceptMissing(e) ==
    [pc |-> "raised", result |-> [success |-> FALSE, message |-> <<"raised", e>>]]

\* except Exception as e: return {'success': False, 'message': ...}
OuterExcept(e) ==
    [pc |-> "returned", result |-> [success |-> FALSE, message |-> <<"Planning error", e>>]]

SuccessResult(p) ==
    [success |-> TRUE, message |-> <<"Generated", Len(p), "day study plan">>,
     plan |-> p, summary |-> GeneratePlanSummary(p)]

EmptyInfo ==
    [topics |-> <<>>, deadlines |-> <<>>, daily_hours |-> IntHours(0), start_date |-> 0,
     deadline |-> None, sync_calendar |-> TRUE]

\* No utility call yet.  A call records its name, the name of the call before
\* it, and its arguments.
NoCall ==
    [op |-> "none", after |-> "none", topics |-> <<>>, break_interval |-> 0,
     available_days |-> 0, daily_hours |-> 0, topic_difficulty |-> <<>>, deadlines |-> <<>>,
     difficulty |-> 0, time_of_day |-> [parsed |-> FALSE, hour |-> 0]]

NoResult == [raised |-> FALSE, value |-> <<>>]

\* optimize_topic_distribution has not been called: its arguments and locals.
\* `topic` is the position of the for loop in topics, `error` the exception
\* that ended the call.
NotDistributing ==
    [pc |-> "idle", topics |-> <<>>, available_days |-> 0, daily_hours |-> 0,
     hours_per_topic |-> 0, topic |-> 0, topic_hours |-> 0, current_day |-> 0,
     hours_remaining_today |-> 0, schedule |-> <<>>, error |-> "none"]

Pending == [success |-> FALSE, message |-> <<"pending">>]

NoPrev == [has |-> FALSE, study_info |-> EmptyInfo, result |-> Pending]

NotSaved == [has |-> FALSE, plan |-> <<>>, id |-> 0]

\* Two callers of generate_study_plan that run at the same time, and the local
\* state of a caller that has not called yet.  `overlap` is history: the other
\* caller's invocation was under way when this one began.
Callers == {"first", "second"}

NotCalled ==
    [pc |-> "idle", request |-> BadRequest, study_info |-> EmptyInfo, plan |-> <<>>,
     optimized |-> <<>>, result |-> Pending, overlap |-> FALSE]

Init ==
    /\ now \in 0..MaxClock
    /\ pc = "idle"
    /\ request = BadRequest
    /\ study_info = EmptyInfo
    /\ plan = <<>>
    /\ optimized = <<>>
    /\ calendar = <<>>
    /\ db = <<>>
    /\ result = Pending
    /\ stages = <<>>
    /\ builds = 0
    /\ prev = NoPrev
    /\ saved = NotSaved
    /\ par = [c \in Callers |-> NotCalled]
    /\ usched = <<>>
    /\ ubefore = <<>>
    /\ ucall = NoCall
    /\ usteps = 0
    /\ uinput = <<>>
    /\ uresult = NoResult
    /\ dist = NotDistributing

\* The clock advances by a day.
Tick ==
    /\ now < MaxClock
    /\ now' = now + 1
    /\ UNCHANGED <<pc, request, study_info, plan, optimized, calendar, db, result,
                   stages, builds, prev, saved, uvars, cvars, dvars>>

\* A caller invokes generate_study_plan(user_input, context).
Submit ==
    /\ pc = "idle"
    /\ \E req \in Requests : request' = req
    /\ pc' = "parse"
    /\ builds' = builds + 1
    /\ UNCHANGED <<now, study_info, plan, optimized, calendar, db, result, stages, prev, saved, uvars, cvars, dvars>>

\* The caller invokes generate_study_plan again with the same arguments.
Resubmit ==
    /\ pc = "returned"
    /\ builds < MaxBuilds
    /\ prev' = [has |-> TRUE, study_info |-> study_info, result |-> result]
    /\ pc' = "parse"
    /\ builds' = builds + 1
    /\ study_info' = EmptyInfo
    /\ plan' = <<>>
    /\ optimized' = <<>>
    /\ result' = Pending
    /\ stages' = <<>>
    /\ calendar' = <<>>
    /\ saved' = NotSaved
    /\ UNCHANGED <<now, request, db, uvars, cvars, dvars>>

\* An exception reaches the except clause of generate_study_plan, after the
\* steps `done`.
RaiseAfter(done, e) ==
    /\ pc' = OuterExcept(e).pc
    /\ result' = OuterExcept(e).result
    /\ stages' = Append(done, "Failed")

Raise(e) == RaiseAfter(stages, e)

\* study_info = self._parse_study_request(user_input, context), followed by
\* the test `if not study_info.get('topics')`.
Parse ==
    /\ pc = "parse"
    /\ IF ~request.is_str
       THEN /\ Raise("AttributeError")
            /\ UNCHANGED study_info
       ELSE LET si == ParseStudyRequest(request, request.listing, now)
            IN  /\ study_info' = si
                /\ IF si.topics = <<>>
                   THEN /\ result' = NoTopicsResult
                        /\ pc' = "returned"
                        /\ stages' = Append(stages, "Failed")
                   ELSE /\ pc' = "create"
                        /\ stages' = Append(stages, "RequestParsed")
                        /\ UNCHANGED result
    /\ UNCHANGED <<now, request, plan, optimized, calendar, db, builds, prev, saved, uvars, cvars, dvars>>

\* plan = self._create_study_schedule(study_info)
Create ==
    /\ pc = "create"
    /\ IF CreateRaises(study_info)
       THEN /\ Raise("TypeError")
            /\ UNCHANGED plan
       ELSE /\ plan' = CreateStudySchedule(study_info)
            /\ pc' = "optimize"
            /\ stages' = Append(stages, "Allocated")
            /\ UNCHANGED result
    /\ UNCHANGED <<now, request, study_info, optimized, calendar, db, builds, prev, saved, uvars, cvars, dvars>>

\* optimized_plan = self._optimize_schedule(plan, study_info)
Optimize ==
    /\ pc = "optimize"
    /\ optimized' = OptimizeSchedule(plan)
    /\ pc' = "sync"
    /\ stages' = Append(stages, "BreaksAdded")
    /\ UNCHANGED <<now, request, study_info, plan, calendar, db, result, builds, prev, saved,
                   uvars, cvars, dvars>>

\* if study_info.get('sync_calendar', True): self._sync_to_calendar(optimized_plan)
Sync ==
    /\ pc = "sync"
    /\ \E ok \in BOOLEAN :
         LET r == SyncToCalendar(calendar, optimized, ok)
             done == Append(stages, IF ok THEN "Synced" ELSE "SyncFailed")
         IN  /\ calendar' = (IF study_info.sync_calendar THEN r.calendar ELSE calendar)
             /\ IF study_info.sync_calendar /\ r.raised
                THEN RaiseAfter(done, "SyncError")
                ELSE /\ pc' = "save"
                     /\ stages' = done
                     /\ UNCHANGED result
    /\ UNCHANGED <<now, request, study_info, plan, optimized, db, builds, prev, saved, uvars, cvars, dvars>>

\* self._save_plan(optimized_plan, study_info)
Save ==
    /\ pc = "save"
    /\ \E ok \in BOOLEAN :
         LET r == SavePlan(db, optimized, study_info, ok)
             done == Append(stages, IF ok THEN "SaveCalled" ELSE "SaveFailed")
         IN  /\ db' = r.db
             /\ saved' = r.handed
             /\ IF r.raised
                THEN RaiseAfter(done, "SaveError")
                ELSE /\ pc' = "return"
                     /\ stages' = done
                     /\ UNCHANGED result
    /\ UNCHANGED <<now, request, study_info, plan, optimized, calendar, builds, prev, uvars, cvars, dvars>>

\* return {'success': True, ..., 'plan': optimized_plan, 'summary': ...}
Return ==
    /\ pc = "return"
    /\ result' = SuccessResult(optimized)
    /\ pc' = "returned"
    /\ stages' = Append(stages, "Finalized")
    /\ UNCHANGED <<now, request, study_info, plan, optimized, calendar, db, builds, prev, saved, uvars, cvars, dvars>>

Next == Tick \/ Submit \/ Resubmit \/ Parse \/ Create \/ Optimize \/ Sync \/ Save \/ Return

Spec == Init /\ [][Next]_vars

-----------------------------------------------------------------------------
(* Two invocations of generate_study_plan that run at the same time.  Each has
   its own locals (par[c]); the clock, the calendar and the database are the
   ones of the process. *)

\* generate_study_plan(user_input, context) as one function of its arguments
\* and of the clock value its parse step reads.
GenerateStudyPlan(req, today) ==
    IF ~req.is_str THEN OuterExcept("AttributeError").result
    ELSE LET si == ParseStudyRequest(req, req.listing, today)
         IN  IF si.topics = <<>> THEN NoTopicsResult
             ELSE IF CreateRaises(si) THEN OuterExcept("TypeError").result
             ELSE SuccessResult(OptimizeSchedule(CreateStudySchedule(si)))

\* The requests of the concurrent callers: one subject with 4 hours a day and
\* a deadline, two subjects with the defaults, a daily_hours that is no number,
\* and a user_input that is no string.
ParRequests ==
    {r \in Requests :
        \/ ~r.is_str
        \/ /\ ~r.ctx_topics.has
           /\ \/ r.subjects = {"Calculus"} /\ r.hours = Some(4) /\ ~r.ctx_hours.has
                    /\ r.deadline = Some(2)
              \/ r.subjects = {"Physics", "History"} /\ ~r.hours.has /\ ~r.ctx_hours.has
                    /\ ~r.deadline.has
              \/ r.subjects = {"Calculus"} /\ ~r.hours.has /\ r.ctx_hours = Some(NotANumber)
                    /\ ~r.deadline.has}

\* Variant: the schedule is kept in one place that both callers use (the
\* first caller's).
SharedPlan(c) == par["first"].plan

\* `plan` is a local variable of the invocation.
LocalPlan(c) == par[c].plan

\* The caller c moves on with the locals `locals`; nothing else changes but
\* what the step names.
ParStep(c, locals) == par' = [par EXCEPT ![c] = locals]

ParSubmit(c) ==
    /\ par[c].pc = "idle"
    /\ \E req \in ParRequests :
         ParStep(c, [par[c] EXCEPT
                        !.pc = "parse", !.request = req,
                        !.overlap = \E d \in Callers \ {c} :
                                        par[d].pc \notin {"idle", "returned"}])
    /\ UNCHANGED <<pvars, uvars, dvars>>

ParParse(c) ==
    /\ par[c].pc = "parse"
    /\ IF ~par[c].request.is_str
       THEN ParStep(c, [par[c] EXCEPT !.pc = OuterExcept("AttributeError").pc,
                                      !.result = OuterExcept("AttributeError").result])
       ELSE LET si == ParseStudyRequest(par[c].request, par[c].request.listing, now)
            IN  IF si.topics = <<>>
                THEN ParStep(c, [par[c] EXCEPT !.pc = "returned", !.study_info = si,
                                               !.result = NoTopicsResult])
                ELSE ParStep(c, [par[c] EXCEPT !.pc = "create", !.study_info = si])
    /\ UNCHANGED <<pvars, uvars, dvars>>

ParCreate(c) ==
    /\ par[c].pc = "create"
    /\ IF CreateRaises(par[c].study_info)
       THEN ParStep(c, [par[c] EXCEPT !.pc = OuterExcept("TypeError").pc,
                                      !.result = OuterExcept("TypeError").result])
       ELSE ParStep(c, [par[c] EXCEPT !.pc = "optimize",
                                      !.plan = CreateStudySchedule(par[c].study_info)])
    /\ UNCHANGED <<pvars, uvars, dvars>>

ParOptimize(c) ==
    /\ par[c].pc = "optimize"
    /\ ParStep(c, [par[c] EXCEPT !.pc = "sync", !.optimized = OptimizeSchedule(LocalPlan(c))])
    /\ UNCHANGED <<pvars, uvars, dvars>>

\* The calendar receives the events of both callers.
ParSync(c) ==
    /\ par[c].pc = "sync"
    /\ \E ok \in BOOLEAN :
         LET r == SyncToCalendar(calendar, par[c].optimized, ok)
         IN  /\ calendar' = (IF par[c].study_info.sync_calendar THEN r.calendar ELSE calendar)
             /\ IF par[c].study_info.sync_calendar /\ r.raised
                THEN ParStep(c, [par[c] EXCEPT !.pc = OuterExcept("SyncError").pc,
                                               !.result = OuterExcept("SyncError").result])
                ELSE ParStep(c, [par[c] EXCEPT !.pc = "save"])
    /\ UNCHANGED <<now, pc, request, study_info, plan, optimized, db, result, stages, builds,
                   prev, saved, uvars, dvars>>

ParSave(c) ==
    /\ par[c].pc = "save"
    /\ \E ok \in BOOLEAN :
         LET r == SavePlan(db, par[c].optimized, par[c].study_info, ok)
         IN  /\ db' = r.db
             /\ IF r.raised
                THEN ParStep(c, [par[c] EXCEPT !.pc = OuterExcept("SaveError").pc,
                                               !.result = OuterExcept("SaveError").result])
                ELSE ParStep(c, [par[c] EXCEPT !.pc = "return"])
    /\ UNCHANGED <<now, pc, request, study_info, plan, optimized, calendar, result, stages,
                   builds, prev, saved, uvars, dvars>>

ParReturn(c) ==
    /\ par[c].pc = "return"
    /\ ParStep(c, [par[c] EXCEPT !.pc = "returned", !.result = SuccessResult(par[c].optimized)])
    /\ UNCHANGED <<pvars, uvars, dvars>>

ParNext ==
    \/ Tick
    \/ \E c \in Callers :
         \/ ParSubmit(c) \/ ParParse(c) \/ ParCreate(c) \/ ParOptimize(c)
         \/ ParSync(c) \/ ParSave(c) \/ ParReturn(c)

SpecPar == Init /\ [][ParNext]_vars

-----------------------------------------------------------------------------
(* A caller of SchedulerUtils: it obtains a schedule from one of the two
   producers and passes it through the transformations. *)

\* Topic lists without repetition.
TopicLists == UNION {Orderings(T) : T \in (SUBSET TopicNames) \ {{}}}

\* topic_difficulty arguments: each rated subject is hard (0.8) or at the limit
\* (0.7); the other topics have no entry.
RatedTopics == {"Calculus", "Physics"}
DifficultyMaps == {[t \in RatedTopics |-> IF t \in H THEN 8 ELSE 7] : H \in SUBSET RatedTopics}

\* deadlines arguments: for some of the subjects a deadline, relative to the
\* clock value 0: past, today, ahead, timezone-aware, or written as text.
DeadlineValues ==
    {NaiveDeadline(-1), NaiveDeadline(0), NaiveDeadline(2), AwareDeadline(2), TextDeadline(2)}
DeadlineMaps == UNION {[T -> DeadlineValues] : T \in SUBSET TopicNames}

\* The caller holds a schedule.
HoldsSchedule == ucall.op \notin {"none", "prioritize"}

\* A schedule of _create_study_schedule for a parsed request.
UtilCreate ==
    /\ ucall.op = "none"
    /\ \E topics \in TopicLists, hours \in 1..MaxUtilHours, start \in 0..6,
          days \in 1..DefaultDays :
         usched' = CreateStudySchedule(
                       [topics |-> topics, deadlines |-> <<>>, daily_hours |-> IntHours(hours),
                        start_date |-> start, deadline |-> Some(start + days),
                        sync_calendar |-> TRUE])
    /\ ucall' = [NoCall EXCEPT !.op = "create"]
    /\ ubefore' = <<>>
    /\ uinput' = <<>>
    /\ UNCHANGED <<usteps, uresult, pvars, cvars, dvars>>

\* A schedule of optimize_topic_distribution.
UtilDistribute ==
    /\ ucall.op = "none"
    /\ \E topics \in TopicLists, available_days \in 1..(MaxLabel - 1),
          daily_hours \in 1..MaxUtilHours :
         /\ usched' = OptimizeTopicDistribution(topics, available_days, daily_hours)
         /\ ucall' = [NoCall EXCEPT !.op = "distribute", !.topics = topics,
                                    !.available_days = available_days,
                                    !.daily_hours = daily_hours]
    /\ ubefore' = <<>>
    /\ uinput' = <<>>
    /\ UNCHANGED <<usteps, uresult, pvars, cvars, dvars>>

\* usched = SchedulerUtils.apply_spaced_repetition(usched, topics)
UtilSpacedRepetition ==
    /\ HoldsSchedule
    /\ usteps < MaxUtilSteps
    /\ \E topics \in {<<>>, <<"Calculus">>} :
         /\ usched' = ApplySpacedRepetition(usched, topics)
         /\ uinput' = InputAfterSpacedRepetition(usched, topics)
         /\ ucall' = [NoCall EXCEPT !.op = "spaced", !.after = ucall.op, !.topics = topics]
    /\ ubefore' = usched
    /\ usteps' = usteps + 1
    /\ UNCHANGED <<uresult, pvars, cvars, dvars>>

\* usched = SchedulerUtils.balance_cognitive_load(usched, topic_difficulty):
\* the lists of the returned schedule are new objects.
UtilBalance ==
    /\ HoldsSchedule
    /\ usteps < MaxUtilSteps
    /\ \E topic_difficulty \in DifficultyMaps :
         /\ usched' = BalanceCognitiveLoad(usched, topic_difficulty)
         /\ ucall' = [NoCall EXCEPT !.op = "balance", !.after = ucall.op,
                                    !.topic_difficulty = topic_difficulty]
    /\ ubefore' = usched
    /\ uinput' = usched
    /\ usteps' = usteps + 1
    /\ UNCHANGED <<uresult, pvars, cvars, dvars>>

\* usched = SchedulerUtils.add_breaks(usched, break_interval): the lists of the
\* returned schedule are new objects.
UtilAddBreaksEvery(break_interval) ==
    /\ HoldsSchedule
    /\ usteps < MaxUtilSteps
    /\ usched' = AddBreaks(usched, break_interval)
    /\ ucall' = [NoCall EXCEPT !.op = "breaks", !.after = ucall.op,
                               !.break_interval = break_interval]
    /\ ubefore' = usched
    /\ uinput' = usched
    /\ usteps' = usteps + 1
    /\ UNCHANGED <<uresult, pvars, cvars, dvars>>

\* usched = SchedulerUtils.add_breaks(usched): break_interval = 120.
UtilAddBreaks == UtilAddBreaksEvery(BreakAfterMinutes)

\* SchedulerUtils.prioritize_by_deadline(topics, deadlines)
UtilPrioritize ==
    /\ ucall.op = "none"
    /\ \E topics \in TopicLists, deadlines \in DeadlineMaps :
         /\ uresult' = PrioritizeByDeadline(topics, deadlines, now)
         /\ ucall' = [NoCall EXCEPT !.op = "prioritize", !.topics = topics,
                                    !.deadlines = deadlines]
    /\ UNCHANGED <<usched, ubefore, usteps, uinput, pvars, cvars, dvars>>

\* The caller composes a schedule itself: a day of sessions of every shape
\* (study and review records of rated and unrated topics, a (topic, hours)
\* pair), followed by a day of two study sessions.
GivenSessions ==
    {StudySession(<<9, 0>>, "Calculus"), StudySession(<<14, 0>>, "Physics"),
     ReviewSession("Calculus"), EveningReview, TupleSession("History", 1)}

GivenDays == UNION {[1..n -> GivenSessions] : n \in 0..MaxDayLen}

UtilGiven ==
    /\ ucall.op = "none"
    /\ \E sessions \in GivenDays :
         usched' = <<[key |-> DayKey(1), value |-> sessions],
                     [key |-> DayKey(2),
                      value |-> <<StudySession(<<9, 0>>, "Physics"),
                                  StudySession(<<14, 0>>, "Calculus")>>]>>
    /\ ucall' = [NoCall EXCEPT !.op = "given"]
    /\ ubefore' = <<>>
    /\ uinput' = <<>>
    /\ UNCHANGED <<usteps, uresult, pvars, cvars, dvars>>

UtilNext ==
    \/ UtilCreate \/ UtilDistribute \/ UtilSpacedRepetition \/ UtilBalance \/ UtilAddBreaks
    \/ UtilPrioritize

UtilInit == Init /\ now = 0

SpecUtils == UtilInit /\ [][UtilNext]_vars

\* balance_cognitive_load on the schedules a caller composes.
BalanceNext == UtilGiven \/ UtilBalance

SpecBalance == UtilInit /\ [][BalanceNext]_vars

-----------------------------------------------------------------------------
(* add_breaks on the schedules a caller composes *)

\* The sessions of a composed day: study records in the morning and shortly
\* before midnight, a review whose time strptime rejects ('24:00'), a break, a
\* (topic, hours) pair.
TimedSessions ==
    {StudySession(<<9, 0>>, "Calculus"), StudySession(<<23, 30>>, "Physics"),
     [ReviewSession("Calculus") EXCEPT !.time = <<24, 0>>], BreakSession(<<11, 0>>),
     TupleSession("History", 1)}

\* break_interval arguments other than the default.
BreakIntervals == {45, 600}

\* The caller composes a day, followed by a day of one study session.
UtilTimed ==
    /\ ucall.op = "none"
    /\ \E sessions \in UNION {[1..n -> TimedSessions] : n \in 0..MaxDayLen} :
         usched' = <<[key |-> DayKey(1), value |-> sessions],
                     [key |-> DayKey(2), value |-> <<StudySession(<<14, 0>>, "Calculus")>>]>>
    /\ ucall' = [NoCall EXCEPT !.op = "given"]
    /\ ubefore' = <<>>
    /\ uinput' = <<>>
    /\ UNCHANGED <<usteps, uresult, pvars, cvars, dvars>>

BreaksNext == UtilTimed \/ UtilAddBreaks \/ \E m \in BreakIntervals : UtilAddBreaksEvery(m)

SpecBreaks == UtilInit /\ [][BreaksNext]_vars

-----------------------------------------------------------------------------
(* SchedulerUtils.calculate_optimal_session_length *)

MaxHourText == 25    \* the hour field of time_of_day: up to MaxHourText

EasyBelow == 3       \* difficulty < 0.3, in tenths

\* difficulty arguments 0.0, 0.1, ..., 1.0, in tenths.
DifficultyLevels == 0..10

\* time_of_day arguments: a text whose part before ':' int() reads as a number
\* (negative and beyond 23 included), and a text int() rejects.
TimesOfDay ==
    {[parsed |-> TRUE, hour |-> h] : h \in -1..MaxHourText} \cup {[parsed |-> FALSE, hour |-> 0]}

\* Variant: the limits 0.7 and 0.3 belong to the outer ranges.
BaseLengthInclusive(difficulty) ==
    IF difficulty >= HardAbove THEN 45 ELSE IF difficulty <= EasyBelow THEN 90 ELSE 60

\* base_length after the adjustment for difficulty.
BaseLength(difficulty) ==
    IF difficulty > HardAbove THEN 45 ELSE IF difficulty < EasyBelow THEN 90 ELSE 60

\* int(base_length * 1.1) and int(base_length * 0.9): the factor in tenths,
\* the product cut to whole minutes.
ScaledLength(base_length, tenths) == (base_length * tenths) \div 10

CalculateOptimalSessionLength(difficulty, time_of_day) ==
    LET base_length == BaseLength(difficulty)
        hour == time_of_day.hour
    IN  IF ~time_of_day.parsed THEN base_length
        ELSE IF 6 <= hour /\ hour < 12 THEN ScaledLength(base_length, 11)
        ELSE IF 12 <= hour /\ hour < 18 THEN base_length
        ELSE IF 18 <= hour /\ hour < 22 THEN ScaledLength(base_length, 9)
        ELSE base_length

\* SchedulerUtils.calculate_optimal_session_length(difficulty, time_of_day)
UtilSessionLength ==
    /\ ucall.op = "none"
    /\ \E difficulty \in DifficultyLevels, time_of_day \in TimesOfDay :
         /\ uresult' = [raised |-> FALSE,
                        value |-> CalculateOptimalSessionLength(difficulty, time_of_day)]
         /\ ucall' = [NoCall EXCEPT !.op = "length", !.difficulty = difficulty,
                                    !.time_of_day = time_of_day]
    /\ UNCHANGED <<usched, ubefore, usteps, uinput, pvars, cvars, dvars>>

SpecLength == UtilInit /\ [][UtilSessionLength]_vars

-----------------------------------------------------------------------------
(* SchedulerUtils.optimize_topic_distribution, statement by statement: the
   arguments a caller can pass (empty topic lists, zero and negative numbers
   included) and the two loops. *)

MaxDistDays == 3     \* available_days given to the call: up to MaxDistDays
MaxDistHours == 3    \* daily_hours given to the call: up to MaxDistHours

DistTopicLists == TopicLists \cup {<<>>}
DistDays == -1..MaxDistDays
DistHours == -1..MaxDistHours

\* hours_per_topic = max(1, total_hours // len(topics))
HoursPerTopic(topics, available_days, daily_hours) ==
    Max(1, FloorDiv(available_days * daily_hours, Len(topics)))

\* Variant: the whole of the topic's hours is placed on the current day.
HoursToAllocateUncapped(topic_hours, hours_remaining_today) == topic_hours

\* hours_to_allocate = min(topic_hours, hours_remaining_today)
HoursToAllocate(topic_hours, hours_remaining_today) == Min(topic_hours, hours_remaining_today)

\* Variant: the day counts as full only below zero.
DayIsOverfull(hours_remaining_today) == hours_remaining_today < 0

\* if hours_remaining_today <= 0
DayIsFull(hours_remaining_today) == hours_remaining_today <= 0

\* One pass through the body of `while topic_hours > 0` from the locals d; the
\* break leaves the loop for the test that follows it.
WhileBody(d) ==
    LET day_key == DayKey(d.current_day + 1)
        with_day == IF DictHas(d.schedule, day_key) THEN d.schedule
                    ELSE DictSet(d.schedule, day_key, <<>>)
        hours_to_allocate == HoursToAllocate(d.topic_hours, d.hours_remaining_today)
        allocated ==
            IF hours_to_allocate > 0
            THEN [d EXCEPT !.schedule =
                               DictSet(with_day, day_key,
                                       Append(DictGet(with_day, day_key),
                                              TupleSession(d.topics[d.topic],
                                                           hours_to_allocate))),
                           !.topic_hours = @ - hours_to_allocate,
                           !.hours_remaining_today = @ - hours_to_allocate]
            ELSE [d EXCEPT !.schedule = with_day]
    IN  IF DayIsFull(allocated.hours_remaining_today)
        THEN LET moved == [allocated EXCEPT !.current_day = @ + 1,
                                            !.hours_remaining_today = d.daily_hours]
             IN  IF moved.current_day >= moved.available_days
                 THEN [moved EXCEPT !.pc = "check"]
                 ELSE moved
        ELSE allocated

\* The call, up to the head of the for loop.  len(topics) = 0 raises
\* ZeroDivisionError in the division.
DistCall ==
    /\ dist.pc = "idle"
    /\ \E topics \in DistTopicLists, available_days \in DistDays, daily_hours \in DistHours :
         dist' = IF Len(topics) = 0
                 THEN [NotDistributing EXCEPT
                          !.pc = "raised", !.error = "ZeroDivisionError",
                          !.topics = topics, !.available_days = available_days,
                          !.daily_hours = daily_hours]
                 ELSE [NotDistributing EXCEPT
                          !.pc = "for", !.topics = topics,
                          !.available_days = available_days, !.daily_hours = daily_hours,
                          !.hours_per_topic = HoursPerTopic(topics, available_days, daily_hours),
                          !.topic = 1, !.current_day = 0,
                          !.hours_remaining_today = daily_hours]
    /\ UNCHANGED <<pvars, uvars, cvars>>

\* for topic in topics: topic_hours = hours_per_topic; after the last topic
\* the schedule is returned.
DistFor ==
    /\ dist.pc = "for"
    /\ dist' = IF dist.topic > Len(dist.topics) THEN [dist EXCEPT !.pc = "returned"]
               ELSE [dist EXCEPT !.pc = "while", !.topic_hours = dist.hours_per_topic]
    /\ UNCHANGED <<pvars, uvars, cvars>>

\* while topic_hours > 0: one pass, or the end of the loop.
DistWhile ==
    /\ dist.pc = "while"
    /\ dist' = IF dist.topic_hours > 0 THEN WhileBody(dist) ELSE [dist EXCEPT !.pc = "check"]
    /\ UNCHANGED <<pvars, uvars, cvars>>

\* if current_day >= available_days: break (and return), else the next topic.
DistCheck ==
    /\ dist.pc = "check"
    /\ dist' = IF dist.current_day >= dist.available_days THEN [dist EXCEPT !.pc = "returned"]
               ELSE [dist EXCEPT !.pc = "for", !.topic = @ + 1]
    /\ UNCHANGED <<pvars, uvars, cvars>>

\* The statements of a call that is under way.
DistRun == DistFor \/ DistWhile \/ DistCheck

DistNext == DistCall \/ DistFor \/ DistWhile \/ DistCheck

SpecDistribute == UtilInit /\ [][DistNext]_vars

\* A call that is under way keeps executing its statements.
SpecDistributeFair == SpecDistribute /\ WF_vars(DistRun)

-----------------------------------------------------------------------------
(* Vocabulary of the claims *)

\* A session's duration in minutes, from its duration string.
DurationMinutes(session) ==
    CASE session.duration = "2 hours"    -> 120
      [] session.duration = "1 hour"     -> 60
      [] session.duration = "30 minutes" -> 30
      [] session.duration = "15 minutes" -> 15
      [] OTHER                           -> 0

RECURSIVE DayMinutes(_, _)
DayMinutes(sessions, i) ==
    IF i > Len(sessions) THEN 0
    ELSE DurationMinutes(sessions[i]) + DayMinutes(sessions, i + 1)

\* generate_study_plan has returned a plan.
Accepted == pc = "returned" /\ result.success

\* The request is valid in the sense of the specification: a numeric, positive
\* daily_hours and at least one day between start_date and deadline.
ValidHours == study_info.daily_hours.is_int /\ study_info.daily_hours.val > 0
ZeroDays == study_info.deadline.has /\ study_info.deadline.val - study_info.start_date <= 0

IsBreak(session) == session.session_type = "break"

BreakIsLast(sessions) == Len(sessions) > 0 /\ IsBreak(sessions[Len(sessions)])
BreakAfterBreak(sessions) ==
    \E i \in 1..(Len(sessions) - 1) : IsBreak(sessions[i]) /\ IsBreak(sessions[i + 1])

\* The stages of the specification's state machine among the executed steps.
PipelineStages ==
    {"RequestParsed", "Prioritized", "Allocated", "ReviewInjected", "Balanced",
     "BreaksAdded", "Finalized"}
IsPipelineStage(s) == s \in PipelineStages
LaterStages == {"Allocated", "BreaksAdded", "Synced", "SyncFailed", "SaveCalled", "SaveFailed"}

-----------------------------------------------------------------------------
(* Claims about generate_study_plan *)

\* C1 (as claimed): in every Day of a returned Plan the durations of all its
\* sessions, breaks included, sum to at most daily_hours * 60 minutes.  Stated
\* for requests with a positive daily_hours, where the violation already shows.
C1_DailyCapIncludingBreaks ==
    (Accepted /\ ValidHours) =>
        \A d \in 1..Len(result.plan) :
            DayMinutes(result.plan[d].value, 1) <= study_info.daily_hours.val * 60

\* C2 (as claimed): every topic of a valid request is the topic of at least one
\* FocusedStudy or Review session of the returned Plan.
C2_EveryTopicScheduled ==
    (Accepted /\ ValidHours) =>
        \A t \in Range(study_info.topics) :
            \E di \in AllSessions(result.plan) :
                /\ SessionAt(result.plan, di).topic = t
                /\ SessionAt(result.plan, di).session_type \in StudyTypes

\* C4 (as claimed): in a returned Plan no Break is the last session of a Day
\* and no Break immediately follows another Break.
C4_NoTrailingOrDoubleBreak ==
    Accepted =>
        \A d \in 1..Len(result.plan) :
            ~BreakIsLast(result.plan[d].value) /\ ~BreakAfterBreak(result.plan[d].value)

\* C5 (as claimed): a request in which no topic is found and whose context
\* supplies none ends in a failure result without a plan, and no schedule is
\* built for it.
C5_NoTopicsFails ==
    (pc = "returned" /\ request.is_str /\ request.subjects = {} /\ ~request.ctx_topics.has) =>
        /\ ~result.success
        /\ "plan" \notin DOMAIN result
        /\ "Allocated" \notin Range(stages)

\* C6 (as claimed): a request with a non-positive daily_hours or with zero
\* available days ends in a failure result without a plan, and none of the
\* later stages is applied to it.
C6_InvalidRequestFails ==
    (pc = "returned" /\ request.is_str /\ study_info.daily_hours.is_int
        /\ (study_info.daily_hours.val <= 0 \/ ZeroDays)) =>
        /\ ~result.success
        /\ "plan" \notin DOMAIN result
        /\ Range(stages) \cap LaterStages = {}

\* C7: generate_study_plan raises nothing to its caller; what it returns has a
\* boolean success and carries a plan exactly when success is true.
C7_StructuredResult ==
    /\ pc \in {"idle", "parse", "create", "optimize", "sync", "save", "return", "returned"}
    /\ pc = "returned" =>
         /\ result.success \in BOOLEAN
         /\ ("plan" \in DOMAIN result) <=> result.success

\* C7 witness: a call whose allocation step raised has returned a failure.
C7_Witness ==
    /\ pc = "returned"
    /\ stages = <<"RequestParsed", "Failed">>
    /\ ~result.success

\* C8: when the calendar or the database collaborator failed during the call,
\* the call still returns success with the plan and summary that its parsed
\* request determines, the same as without the failure.
C8_CollaboratorFailureHarmless ==
    (pc = "returned" /\ ("SyncFailed" \in Range(stages) \/ "SaveFailed" \in Range(stages))) =>
        result = SuccessResult(OptimizeSchedule(CreateStudySchedule(study_info)))

\* C8 witness: a call in which both collaborators failed returned a plan.
C8_Witness ==
    /\ Accepted
    /\ "SyncFailed" \in Range(stages)
    /\ "SaveFailed" \in Range(stages)
    /\ Len(result.plan) > 0

\* C9 (as claimed): a successful call runs the stages RequestParsed, Allocated,
\* ReviewInjected, Balanced, BreaksAdded, Finalized, in this order, each once.
C9_AllStagesInOrder ==
    (Accepted /\ ValidHours) =>
        SelectSeq(stages, IsPipelineStage) =
            <<"RequestParsed", "Allocated", "ReviewInjected", "Balanced", "BreaksAdded",
              "Finalized">>

-----------------------------------------------------------------------------
(* Claims about SchedulerUtils *)

\* The topic occurs among the sessions of the d-th day of the schedule.
TopicOnDay(schedule, d, topic) ==
    \E i \in 1..Len(schedule[d].value) : SessionTopic(schedule[d].value[i]) = topic

\* Chronological index of the day of a topic's first appearance: the producers
\* insert the days in date order, so a day's index is its position.
FirstDay(schedule, topic) ==
    CHOOSE d \in 1..Len(schedule) :
        /\ TopicOnDay(schedule, d, topic)
        /\ \A e \in 1..(d - 1) : ~TopicOnDay(schedule, e, topic)

\* The positions of the sessions the last call appended to the d-th day.
Appended(d) == (Len(ubefore[d].value) + 1)..Len(usched[d].value)

\* C3 (as claimed): every Review that apply_spaced_repetition added for a
\* topic T lies on the day with chronological index first(T)+1, first(T)+3 or
\* first(T)+7, hence after the day of T's first appearance.
\* Stated for the reviews of the request's own topics.
C3_ReviewsAtChronologicalOffsets ==
    ucall.op = "spaced" =>
        \A d \in 1..Len(usched) : \A i \in Appended(d) :
            usched[d].value[i].topic \in TopicNames =>
                (d - FirstDay(ubefore, usched[d].value[i].topic)) \in Range(ReviewIntervals)

\* The day holds the same Review session of apply_spaced_repetition for one of
\* the subjects twice.
DuplicateReview(sessions) ==
    \E i, j \in 1..Len(sessions) :
        /\ i < j
        /\ IsDict(sessions[i])
        /\ sessions[i].topic \in TopicNames
        /\ sessions[i] = ReviewSession(sessions[i].topic)
        /\ sessions[j] = sessions[i]

\* C11 (as claimed): apply_spaced_repetition applied to a schedule that it has
\* already enhanced leaves no day with two Review sessions for the same topic
\* from the same offset.
C11_SecondApplicationGuarded ==
    (ucall.op = "spaced" /\ ucall.after = "spaced") =>
        \A d \in 1..Len(usched) : ~DuplicateReview(usched[d].value)

\* C12 (as claimed): every topic given to optimize_topic_distribution has a
\* slot in the returned schedule.
C12_NoTopicDropped ==
    ucall.op = "distribute" =>
        \A t \in Range(ucall.topics) : \E d \in 1..Len(usched) : TopicOnDay(usched, d, t)

\* A session record is hard under the difficulties of the last call.
IsHard(session) == DifficultyOf(session.topic, ucall.topic_difficulty) > HardAbove

\* The hard (want = TRUE) or easy (want = FALSE) session records of a day, in
\* their order, from position i.
RECURSIVE PartOf(_, _, _)
PartOf(sessions, i, want) ==
    IF i > Len(sessions) THEN <<>>
    ELSE (IF IsDict(sessions[i]) /\ (IsHard(sessions[i]) <=> want)
          THEN <<sessions[i]>> ELSE <<>>)
         \o PartOf(sessions, i + 1, want)

\* A balanced day: hard and easy alternate from a hard session while both last,
\* then the rest follows; each partition is in the order of the input day.
Alternates(before, after) ==
    LET hard == PartOf(before, 1, TRUE)
        easy == PartOf(before, 1, FALSE)
        both == 2 * Min(Len(hard), Len(easy))
    IN  /\ Len(after) = Len(hard) + Len(easy)
        /\ \A i \in 1..Len(after) : IsDict(after[i])
        /\ \A i \in 1..both : IsHard(after[i]) <=> (i % 2 = 1)
        /\ \A i \in (both + 1)..Len(after) : IsHard(after[i]) <=> (Len(hard) > Len(easy))
        /\ PartOf(after, 1, TRUE) = hard
        /\ PartOf(after, 1, FALSE) = easy

\* C13: every day returned by balance_cognitive_load alternates hard and easy
\* sessions starting with a hard one until one partition is exhausted, then
\* lists the rest of the other; each partition keeps its original order.
C13_BalancedDaysAlternate ==
    ucall.op = "balance" =>
        \A d \in 1..Len(usched) : Alternates(ubefore[d].value, usched[d].value)

\* C13 witness: a day with two hard sessions and an easy one between them was
\* balanced, and its order changed.
C13_Witness ==
    /\ ucall.op = "balance"
    /\ \E d \in 1..Len(usched) :
         /\ Len(PartOf(ubefore[d].value, 1, TRUE)) >= 2
         /\ Len(PartOf(ubefore[d].value, 1, FALSE)) >= 1
         /\ usched[d].value # ubefore[d].value

\* Start and end of a session record, in minutes of the day.
StartMinute(session) == session.time[1] * 60 + session.time[2]
EndMinute(session) == StartMinute(session) + DurationMinutes(session)

AllRecords(schedule) ==
    \A d \in 1..Len(schedule) : \A i \in 1..Len(schedule[d].value) : IsDict(schedule[d].value[i])

\* C16 (as claimed): in every day of a schedule of session records that a
\* pipeline stage (review injection, balancing, break insertion) returned, the
\* sessions are in non-decreasing start-time order and each session ends at or
\* before the start of the next one.
C16_OrderedWithoutOverlap ==
    (ucall.op \in {"spaced", "balance", "breaks"} /\ AllRecords(usched)) =>
        \A d \in 1..Len(usched) : \A i \in 1..(Len(usched[d].value) - 1) :
            /\ StartMinute(usched[d].value[i]) <= StartMinute(usched[d].value[i + 1])
            /\ EndMinute(usched[d].value[i]) <= StartMinute(usched[d].value[i + 1])

\* The urgency of a topic in the last prioritize_by_deadline call: whole days
\* until its deadline, infinite without one.
Urgency(topic) == UrgencyScore(topic, ucall.deadlines, now)

\* Position of a topic in the list given to the call.
GivenPosition(topic) == CHOOSE i \in 1..Len(ucall.topics) : ucall.topics[i] = topic

\* The returned list is the given one in non-decreasing urgency, topics of equal
\* urgency in their given order.
StablySorted(returned) ==
    /\ Len(returned) = Len(ucall.topics)
    /\ Range(returned) = Range(ucall.topics)
    /\ \A i, j \in 1..Len(returned) :
         i < j =>
            /\ ~ScoreLess(Urgency(returned[j]), Urgency(returned[i]))
            /\ Urgency(returned[i]) = Urgency(returned[j]) =>
                 GivenPosition(returned[i]) < GivenPosition(returned[j])

\* C18 (as claimed): prioritize_by_deadline raises for no input and returns
\* the given topics stably sorted by non-decreasing urgency.
C18_SortedByUrgencyNeverRaises ==
    ucall.op = "prioritize" => (~uresult.raised /\ StablySorted(uresult.value))

\* C20 (as claimed): after apply_spaced_repetition, balance_cognitive_load or
\* add_breaks returned, the schedule that was passed in has the days and the
\* session lists it had before the call.
C20_StagesLeaveInputUnchanged ==
    ucall.op \in {"spaced", "balance", "breaks"} => uinput = ubefore

-----------------------------------------------------------------------------
(* Further claims about generate_study_plan *)

\* The sessions of a day that start at the given time.
SessionsAt(sessions, time) == {i \in 1..Len(sessions) : sessions[i].time = time}

\* The sessions the initial schedule holds for the k-th generated day.
InitialDay(k) == DictGet(plan, DayName(study_info.start_date + k))

\* The number of days before the k-th that have an afternoon session.
EarlierAfternoons(k) ==
    Cardinality({e \in 0..(k - 1) : SessionsAt(InitialDay(e), <<14, 0>>) # {}})

\* The days 0..DaysAvailable-1 whose label no later day of the schedule reuses.
KeptDays == {k \in 0..(DaysAvailable(study_info) - 1) : k + 7 >= DaysAvailable(study_info)}

\* C14: in the initial schedule, as _create_study_schedule returns it (the call
\* is about to run _optimize_schedule), the 09:00 session of a day studies
\* topics[i mod n] and its 14:00 session studies topics[(i+1) mod n], i being
\* the number of earlier days with an afternoon session; for
\* topics=[Calculus, Physics], daily_hours=4 and 2 days the schedule is
\* [Calculus@09:00, Physics@14:00], [Physics@09:00, Calculus@14:00], each
\* session 2 hours long.
C14_TopicIndexFollowsAfternoons ==
    pc = "optimize" =>
        LET topics == study_info.topics
            n == Len(topics)
        IN  /\ \A k \in KeptDays :
                 LET i == EarlierAfternoons(k)
                 IN  /\ \A m \in SessionsAt(InitialDay(k), <<9, 0>>) :
                            InitialDay(k)[m].topic = topics[(i % n) + 1]
                     /\ \A a \in SessionsAt(InitialDay(k), <<14, 0>>) :
                            InitialDay(k)[a].topic = topics[((i + 1) % n) + 1]
            /\ (/\ topics = <<"Calculus", "Physics">>
                /\ study_info.daily_hours.val = 4
                /\ DaysAvailable(study_info) = 2) =>
                    [d \in 1..Len(plan) |->
                        [s \in 1..Len(plan[d].value) |->
                            <<plan[d].value[s].topic, plan[d].value[s].time,
                              DurationMinutes(plan[d].value[s])>>]]
                    = << << <<"Calculus", <<9, 0>>, 120>>, <<"Physics", <<14, 0>>, 120>> >>,
                         << <<"Physics", <<9, 0>>, 120>>, <<"Calculus", <<14, 0>>, 120>> >> >>

\* C14 witness: the schedule of the scenario (two topics, 4 hours, 2 days) has
\* been allocated.
C14_Witness ==
    /\ pc = "optimize"
    /\ study_info.topics = <<"Calculus", "Physics">>
    /\ study_info.daily_hours.val = 4
    /\ DaysAvailable(study_info) = 2
    /\ Len(plan) = 2

\* C15 (as claimed): the summary of a returned Plan counts its days, its
\* sessions and its study sessions, estimates 2 hours per study session, and
\* lists as topics_covered exactly the request topics that have a session.
C15_SummaryMatchesPlan ==
    Accepted =>
        LET p == result.plan
            study == {di \in AllSessions(p) : ~IsBreak(SessionAt(p, di))}
        IN  /\ result.summary.total_days = Len(p)
            /\ result.summary.total_sessions = Cardinality(AllSessions(p))
            /\ result.summary.study_sessions = Cardinality(study)
            /\ result.summary.estimated_hours = 2 * Cardinality(study)
            /\ result.summary.topics_covered =
                   {t \in Range(study_info.topics) :
                       \E di \in AllSessions(p) : SessionAt(p, di).topic = t}

\* The steps that call a collaborator.
CollaboratorSteps == {"Synced", "SyncFailed", "SaveCalled", "SaveFailed"}

-----------------------------------------------------------------------------
(* Claims about concurrent invocations *)

\* C19: however the steps of two invocations interleave, each returns what
\* generate_study_plan returns for its arguments when it runs alone from the
\* clock value it parsed at: the same success flag, plan and summary.
C19_InterleavingInvisible ==
    \A c \in Callers :
        par[c].pc = "returned" =>
            par[c].result =
                GenerateStudyPlan(par[c].request,
                                  IF par[c].request.is_str THEN par[c].study_info.start_date
                                  ELSE now)

\* C19 witness: both invocations were under way at the same time with
\* different requests, and both have returned a plan.
C19_Witness ==
    /\ \A c \in Callers : par[c].pc = "returned" /\ par[c].result.success
    /\ \E c \in Callers : par[c].overlap
    /\ par["first"].request # par["second"].request
    /\ par["first"].result.plan # par["second"].result.plan
    /\ Len(calendar) > 0

-----------------------------------------------------------------------------
(* Claims about optimize_topic_distribution *)

\* The call has ended, by returning or by raising.
DistEnded == dist.pc \in {"returned", "raised"}

\* Arguments the specification calls invalid.
InvalidArguments == Len(dist.topics) = 0 \/ dist.available_days < 1 \/ dist.daily_hours <= 0

\* C21 (as claimed): a call with an empty topic list, available_days < 1 or
\* daily_hours <= 0 ends with an error and returns no schedule, not even one
\* with an empty day.  Any exception counts as the input error.
C21_InvalidInputRejected ==
    (DistEnded /\ InvalidArguments) => (dist.pc = "raised" /\ dist.schedule = <<>>)

\* The hours of the (topic, hours) pairs of a day, from position i.
RECURSIVE DayHours(_, _)
DayHours(sessions, i) ==
    IF i > Len(sessions) THEN 0 ELSE sessions[i].t1 + DayHours(sessions, i + 1)

\* The topics of the pairs read day by day, from day d.
RECURSIVE TopicsRead(_, _)
TopicsRead(schedule, d) ==
    IF d > Len(schedule) THEN <<>>
    ELSE [i \in 1..Len(schedule[d].value) |-> schedule[d].value[i].t0]
         \o TopicsRead(schedule, d + 1)

\* Position of a topic in the topics argument.
Priority(topic) == CHOOSE i \in 1..Len(dist.topics) : dist.topics[i] = topic

\* C22: for daily_hours > 0 and available_days >= 1 the returned days are
\* labelled "Day 1".."Day k" without gaps; the hours of a day sum to at most
\* daily_hours and to exactly daily_hours on every day before the last; read
\* day by day the topics come in the priority order of the input, none passed
\* over and none returned to; a topic has one slot per day, and it continues on
\* the next day only when its day is filled to daily_hours.
C22_GreedyFillInPriorityOrder ==
    (dist.pc = "returned" /\ ~InvalidArguments) =>
        LET schedule == dist.schedule
            read == TopicsRead(schedule, 1)
        IN  /\ \A d \in 1..Len(schedule) :
                 /\ schedule[d].key = DayKey(d)
                 /\ \A i \in 1..Len(schedule[d].value) :
                        IsTuple(schedule[d].value[i]) /\ schedule[d].value[i].t1 >= 1
                 /\ DayHours(schedule[d].value, 1) <= dist.daily_hours
                 /\ d < Len(schedule) => DayHours(schedule[d].value, 1) = dist.daily_hours
                 /\ \A i, j \in 1..Len(schedule[d].value) :
                        i # j => schedule[d].value[i].t0 # schedule[d].value[j].t0
            /\ Len(read) >= 1 /\ read[1] = dist.topics[1]
            /\ \A k \in 1..(Len(read) - 1) :
                 Priority(read[k + 1]) - Priority(read[k]) \in {0, 1}
            /\ \A d \in 1..(Len(schedule) - 1) : \A t \in Range(dist.topics) :
                 (TopicOnDay(schedule, d, t) /\ TopicOnDay(schedule, d + 1, t)) =>
                     /\ DayHours(schedule[d].value, 1) = dist.daily_hours
                     /\ schedule[d].value[Len(schedule[d].value)].t0 = t
                     /\ schedule[d + 1].value[1].t0 = t

\* C22 witness: a call with two topics returned three days, the first topic
\* split over the first two days, the second day shared by both topics.
C22_Witness ==
    /\ dist.pc = "returned" /\ ~InvalidArguments
    /\ Len(dist.topics) = 2
    /\ Len(dist.schedule) = 3
    /\ TopicOnDay(dist.schedule, 1, dist.topics[1])
    /\ TopicOnDay(dist.schedule, 2, dist.topics[1])
    /\ TopicOnDay(dist.schedule, 2, dist.topics[2])

\* The hours a topic received over all days of the schedule, from day d.
RECURSIVE TopicTotal(_, _, _)
TopicTotal(schedule, topic, d) ==
    IF d > Len(schedule) THEN 0
    ELSE DayHours(SelectSeq(schedule[d].value, LAMBDA s : s.t0 = topic), 1)
         + TopicTotal(schedule, topic, d + 1)

\* The hours allocated over all days, from day d.
RECURSIVE AllocatedTotal(_, _)
AllocatedTotal(schedule, d) ==
    IF d > Len(schedule) THEN 0
    ELSE DayHours(schedule[d].value, 1) + AllocatedTotal(schedule, d + 1)

\* C23 (as claimed): for valid arguments every topic but the last of the
\* priority order receives exactly hours_per_topic hours in total, the last one
\* at most len(topics)-1 hours less, and at most len(topics)-1 hours of the
\* capacity available_days*daily_hours stay unallocated.
C23_OnlyFinalTopicUnderAllocated ==
    (dist.pc = "returned" /\ ~InvalidArguments) =>
        LET n == Len(dist.topics)
            last == TopicTotal(dist.schedule, dist.topics[n], 1)
        IN  /\ \A i \in 1..(n - 1) :
                 TopicTotal(dist.schedule, dist.topics[i], 1) = dist.hours_per_topic
            /\ last <= dist.hours_per_topic
            /\ dist.hours_per_topic - last <= n - 1
            /\ dist.available_days * dist.daily_hours - AllocatedTotal(dist.schedule, 1) \in 0..(n - 1)

\* C30: a call with a non-empty topic list ends, whatever the integers
\* available_days and daily_hours are: every pass of the inner loop allocates
\* at least one hour to the current topic or moves to the next day, and when
\* the day index reaches available_days the loops are left and the call
\* returns.
C30_DistributionTerminates ==
    /\ [][(dist.pc = "while" /\ dist.topic_hours > 0) =>
              \/ dist'.topic_hours < dist.topic_hours
              \/ dist'.current_day = dist.current_day + 1]_vars
    /\ [][(dist.pc = "while" /\ dist'.current_day = dist.current_day + 1
              /\ dist'.current_day >= dist.available_days) => dist'.pc = "check"]_vars
    /\ [][(dist.pc = "check" /\ dist.current_day >= dist.available_days) =>
              dist'.pc = "returned"]_vars
    /\ (dist.pc = "for") ~> (dist.pc = "returned")

\* C30 witness: a call with daily_hours <= 0 and several days returned after
\* moving through the days without allocating an hour.
C30_Witness ==
    /\ dist.pc = "returned"
    /\ dist.daily_hours <= 0
    /\ dist.available_days >= 2
    /\ Len(dist.schedule) = dist.available_days
    /\ \A d \in 1..Len(dist.schedule) : dist.schedule[d].value = <<>>

-----------------------------------------------------------------------------
(* Further claims about SchedulerUtils *)

\* Index of the first day, in the order in which apply_spaced_repetition reads
\* the days of the schedule it was given, that holds the topic in a study slot:
\* a FocusedStudy or Review record, or a (topic, hours) pair.  0 without one.
FirstStudyIndex(topic) ==
    LET days == VisitOrder(ubefore)
        holds == {j \in 1..Len(days) :
                     \E i \in 1..Len(DictGet(ubefore, days[j])) :
                         LET session == DictGet(ubefore, days[j])[i]
                         IN  /\ SessionTopic(session) = topic
                             /\ IsDict(session) => session.session_type \in StudyTypes}
    IN  IF holds = {} THEN 0 ELSE CHOOSE j \in holds : \A k \in holds : j <= k

\* The number of sessions the last call appended to the d-th day that are the
\* 20:00, 30-minute Review of the topic.
ReviewsAdded(d, topic) ==
    Cardinality({i \in Appended(d) : usched[d].value[i] = ReviewSession(topic)})

\* C24 (as claimed): what apply_spaced_repetition appends are Review sessions
\* (20:00, 30 minutes) of topics of its topics argument; a topic of the
\* argument whose first appearance is a study slot gets one Review on each of
\* the days 1, 3 and 7 after it that the schedule has, and no other topic gets
\* one.
C24_ReviewsExactlyForTopicsArgument ==
    ucall.op = "spaced" =>
        LET days == VisitOrder(ubefore)
        IN  \A d \in 1..Len(usched) :
              /\ \A i \in Appended(d) :
                    /\ usched[d].value[i] = ReviewSession(usched[d].value[i].topic)
                    /\ usched[d].value[i].topic \in Range(ucall.topics)
              /\ \A t \in Range(ucall.topics) :
                    ReviewsAdded(d, t) =
                        IF /\ FirstStudyIndex(t) > 0
                           /\ \E k \in Range(ReviewIntervals) :
                                 /\ FirstStudyIndex(t) + k <= Len(days)
                                 /\ days[FirstStudyIndex(t) + k] = usched[d].key
                        THEN 1 ELSE 0

\* The positions of a day whose session is a FocusedStudy or Review record and
\* not the last session of the day.
Followed(sessions) ==
    {i \in 1..(Len(sessions) - 1) :
        IsDict(sessions[i]) /\ sessions[i].session_type \in {"focused_study", "review"}}

\* Where the session at position i of the input day stands in the output day.
Place(sessions, i) == i + Cardinality({j \in Followed(sessions) : j < i})

\* The start of a break: the session's start plus the interval on the clock
\* of the day, or the session's time as it is when that time does not parse.
BreakStart(session, interval) ==
    IF session.time[1] \in 0..23 /\ session.time[2] \in 0..59
    THEN LET minute == (StartMinute(session) + interval) % (24 * 60)
         IN  <<minute \div 60, minute % 60>>
    ELSE session.time

\* C25: add_breaks keeps the days and the sessions of each day in their order
\* and inserts one 15-minute Break directly after every FocusedStudy or Review
\* session that is not the last of its day, and nowhere else; the Break starts
\* interval_minutes after that session's start, or carries the session's time
\* unchanged when it does not parse.
C25_BreakAfterEveryStudyButLast ==
    ucall.op = "breaks" =>
        /\ Len(usched) = Len(ubefore)
        /\ \A d \in 1..Len(usched) :
             LET before == ubefore[d].value
                 after == usched[d].value
             IN  /\ usched[d].key = ubefore[d].key
                 /\ Len(after) = Len(before) + Cardinality(Followed(before))
                 /\ \A i \in 1..Len(before) : after[Place(before, i)] = before[i]
                 /\ \A i \in Followed(before) :
                        LET break == after[Place(before, i) + 1]
                        IN  /\ IsDict(break)
                            /\ break.session_type = "break"
                            /\ break.activity = <<"Break">>
                            /\ break.topic = "Rest"
                            /\ DurationMinutes(break) = 15
                            /\ break.time = BreakStart(before[i], ucall.break_interval)

\* C25 witness: with an interval other than the default, a day got a break
\* after a review whose time does not parse (the break carries that time), a
\* break that starts after midnight, and none after its last study session.
C25_Witness ==
    /\ ucall.op = "breaks"
    /\ ucall.break_interval # BreakAfterMinutes
    /\ \E d \in 1..Len(usched) :
         LET before == ubefore[d].value
             after == usched[d].value
         IN  /\ \E i \in Followed(before) :
                    /\ ~ParseTime(before[i].time)
                    /\ after[Place(before, i) + 1].time = before[i].time
             /\ \E i \in Followed(before) :
                    /\ ParseTime(before[i].time)
                    /\ StartMinute(after[Place(before, i) + 1]) < StartMinute(before[i])
             /\ IsDict(before[Len(before)])
             /\ before[Len(before)].session_type = "focused_study"
             /\ after[Len(after)] = before[Len(before)]

\* The factor for the hour of the day, in tenths: 1.1 in [6,12), 0.9 in
\* [18,22), 1.0 in [12,18), for any other hour and for a text that is no hour.
Multiplier(time_of_day) ==
    IF time_of_day.parsed /\ time_of_day.hour \in 6..11 THEN 11
    ELSE IF time_of_day.parsed /\ time_of_day.hour \in 18..21 THEN 9
    ELSE 10

\* The base length of the claim: 45 above 0.7, 90 below 0.3, 60 otherwise.
ClaimedBase(difficulty) ==
    CASE difficulty > 7 -> 45
      [] difficulty < 3 -> 90
      [] OTHER -> 60

\* C26 (as claimed): calculate_optimal_session_length returns base*multiplier
\* minutes and raises nothing.
C26_ReturnsBaseTimesMultiplier ==
    ucall.op = "length" =>
        /\ ~uresult.raised
        /\ uresult.value * 10 = ClaimedBase(ucall.difficulty) * Multiplier(ucall.time_of_day)

\* C26 (amended): calculate_optimal_session_length returns base*multiplier cut
\* to whole minutes (49 for 45*1.1, 40 for 45*0.9) and raises nothing.
C26_ReturnsWholeMinutes ==
    ucall.op = "length" =>
        /\ ~uresult.raised
        /\ uresult.value =
               (ClaimedBase(ucall.difficulty) * Multiplier(ucall.time_of_day)) \div 10

\* C26 witness: a hard topic in the morning gets 49 minutes.
C26_Witness ==
    /\ ucall.op = "length"
    /\ ucall.difficulty > 7
    /\ ucall.time_of_day.parsed /\ ucall.time_of_day.hour = 9
    /\ uresult.value = 49

-----------------------------------------------------------------------------
(* Claims about the days of a plan and its persistence *)

\* days_available of the request: the days from start_date to the deadline,
\* at least 1 and at most 14, or 7 without a deadline.
RequestedDays ==
    IF ~study_info.deadline.has THEN 7
    ELSE LET span == study_info.deadline.val - study_info.start_date
         IN  IF span < 1 THEN 1 ELSE IF span > 14 THEN 14 ELSE span

\* C27 (as claimed): a returned Plan has one Day per available day: its number
\* of Days is days_available, and no two days share a label.
C27_OneDayPerAvailableDay ==
    Accepted =>
        /\ Len(result.plan) = RequestedDays
        /\ \A d, e \in 1..Len(result.plan) : d # e => result.plan[d].key # result.plan[e].key

\* C28 (as claimed): when generate_study_plan has returned a plan and its
\* database was working, save_study_plan stored the plan under a valid id (not
\* -1) and get_current_study_plan returns a row whose plan_data is the
\* returned plan.
C28_SavedPlanIsCurrent ==
    (Accepted /\ "SaveCalled" \in Range(stages)) =>
        /\ saved.has /\ saved.id # -1
        /\ GetCurrentStudyPlan(db) # {}
        /\ \A row \in GetCurrentStudyPlan(db) : row.plan_data = result.plan

\* C29 (as claimed): balance_cognitive_load returns the days it was given, and
\* each day's sessions are a permutation of the day's input sessions, for
\* session records and for (topic, hours) pairs.
C29_BalanceOnlyReorders ==
    ucall.op = "balance" =>
        /\ DictKeys(usched) = DictKeys(ubefore)
        /\ \A d \in 1..Len(usched) :
             LET before == ubefore[d].value
                 after == usched[d].value
             IN  /\ Len(after) = Len(before)
                 /\ \A session \in Range(before) \cup Range(after) :
                        Cardinality({i \in 1..Len(after) : after[i] = session})
                            = Cardinality({i \in 1..Len(before) : before[i] = session})

====
